---- MODULE Spec2Model ----
(***************************************************************************)
(* A model of the jira-mcp-server translation layer: the mux router of     *)
(* cmd/main.go, the four HTTP handlers of internal/handlers and the JIRA   *)
(* client of internal/jira.  One inbound request (or one direct call of a  *)
(* handler or of a client method, as the unit tests make them) is served   *)
(* at a time; the upstream's answer is an input of the environment.        *)
(*                                                                         *)
(* Strings are TLA+ strings; a string whose characters matter (the fields  *)
(* query value) is a sequence of one-character strings.                    *)
(***************************************************************************)
EXTENDS Integers, Sequences, FiniteSets, TLC

(***************************************************************************)
(* Bounds of the model.                                                    *)
(***************************************************************************)
\* inbound result counts range over -1 .. MaxCount
MaxCount == 2
\* an error of the service is wrapped at most MaxWrap times
MaxWrap == 1
\* the upstream redirects a request at most MaxRedirects times
MaxRedirects == 1
\* at most MaxRequests requests are served at the same time
MaxRequests == 2

(***************************************************************************)
(* Values.                                                                 *)
(***************************************************************************)
NoError == [kind |-> "nil"]
NilResult == [kind |-> "nil"]
NoResponse == [kind |-> "none"]
NoRequest == [kind |-> "none"]
NoCall == [op |-> "none"]
NoReturn == [kind |-> "pending"]

\* fmt.Errorf / errors.New: an error that is not a JiraAPIError
LocalError(msg) == [kind |-> "error", msg |-> msg]

\* an error wrapping another one (fmt.Errorf with %w), as a service may return
WrapError(e) == [kind |-> "wrapped", inner |-> e]

JiraAPIError(status, message, url) ==
    [kind |-> "JiraAPIError", StatusCode |-> status, Message |-> message, URL |-> url]

\* the pair (result, error) a service method returns
Return(result, err) == [kind |-> "return", result |-> result, err |-> err]

\* a Go slice of strings: nil, or non-nil with its elements (possibly none)
NilSlice == [nil |-> TRUE, elems |-> <<>>]
Slice(elems) == [nil |-> FALSE, elems |-> elems]

\* value of key k of a decoded JSON object, the zero value when k is absent
Field(obj, k, zero) == IF k \in DOMAIN obj THEN obj[k] ELSE zero

\* the members of a JSON object: f restricted to the keys S
Restrict(f, S) == [k \in S |-> f[k]]

(***************************************************************************)
(* internal/jira: the client.                                              *)
(***************************************************************************)
EpicLinkFieldName == "customfield_10014"

\* the configuration the constructed client holds
ClientConfig ==
    [baseURL |-> "https://jira.test", userEmail |-> "bot@example.com",
     apiToken |-> "secret-token", httpClient |-> "DefaultClient"]

\* a nil *Client, a nil *http.Client, and the value of an unset variable
NilClient == [kind |-> "nil"]
NilHTTPClient == "nil"

\* a NewClient that looks at the base URL only
NewClientURLOnly(e, httpClient) ==
    IF e["JIRA_URL"] = ""
    THEN [client |-> NilClient,
          err |-> LocalError("missing required JIRA credentials in environment variables (JIRA_URL, JIRA_USER_EMAIL, JIRA_API_TOKEN)")]
    ELSE [client |-> [baseURL |-> e["JIRA_URL"],
                      userEmail |-> e["JIRA_USER_EMAIL"],
                      apiToken |-> e["JIRA_API_TOKEN"],
                      httpClient |-> IF httpClient = NilHTTPClient
                                     THEN "DefaultClient" ELSE httpClient],
          err |-> NoError]

\* NewClient: the configuration is read from the environment e
NewClient(e, httpClient) ==
    IF e["JIRA_URL"] = "" \/ e["JIRA_USER_EMAIL"] = "" \/ e["JIRA_API_TOKEN"] = ""
    THEN [client |-> NilClient,
          err |-> LocalError("missing required JIRA credentials in environment variables (JIRA_URL, JIRA_USER_EMAIL, JIRA_API_TOKEN)")]
    ELSE [client |-> [baseURL |-> e["JIRA_URL"],
                      userEmail |-> e["JIRA_USER_EMAIL"],
                      apiToken |-> e["JIRA_API_TOKEN"],
                      httpClient |-> IF httpClient = NilHTTPClient
                                     THEN "DefaultClient" ELSE httpClient],
          err |-> NoError]

\* a call of NewClient: the http.Client handed over and what came back
Constructed(e, httpClient) ==
    LET r == NewClient(e, httpClient)
    IN  [httpClient |-> httpClient, client |-> r.client, err |-> r.err]

\* keys that http.NewRequestWithContext cannot parse into a URL
UnparsableKeys == {"K%zz"}

RECURSIVE fieldsCommaSeparated(_)
fieldsCommaSeparated(fields) ==
    IF Len(fields) = 0 THEN ""
    ELSE IF Len(fields) = 1 THEN fields[1]
    ELSE fields[1] \o "," \o fieldsCommaSeparated(Tail(fields))

\* the Atlassian document wrapping a plain description
DescriptionDocument(text) ==
    [type |-> "doc", version |-> 1,
     content |-> << [type |-> "paragraph",
                     content |-> << [type |-> "text", text |-> text] >>] >>]

\* the outbound HTTP request the client builds
HTTPRequest(c, method, url, contentType, body) ==
    [method |-> method, url |-> url, contentType |-> contentType,
     accept |-> "application/json",
     authUser |-> c.userEmail, authPassword |-> c.apiToken, body |-> body]

NoBody == [kind |-> "none"]
JSONBody(payload) == [kind |-> "json", payload |-> payload]

\* what a client method has done when it first blocks or returns:
\* the requests it sent and, when it returned without sending, its return
Sent(httpReq) == [sends |-> <<httpReq>>, ret |-> NoReturn]
Returned(ret) == [sends |-> <<>>, ret |-> ret]

\* a payload that carries the description also when it is empty
CreateIssuePayloadFieldsAlwaysDescription(req) ==
    LET base == [project |-> [key |-> req.ProjectKey],
                 summary |-> req.Summary,
                 issuetype |-> [name |-> req.IssueType],
                 description |-> DescriptionDocument(req.Description)]
    IN  IF req.ParentKey # ""
        THEN [k \in DOMAIN base \cup {"parent"} |->
                IF k = "parent" THEN [key |-> req.ParentKey] ELSE base[k]]
        ELSE base

\* a payload that carries the assignee when an email is given
CreateIssuePayloadFieldsWithAssignee(req) ==
    LET base == [project |-> [key |-> req.ProjectKey],
                 summary |-> req.Summary,
                 issuetype |-> [name |-> req.IssueType]]
        withDesc == IF req.Description # ""
                    THEN [k \in DOMAIN base \cup {"description"} |->
                            IF k = "description" THEN DescriptionDocument(req.Description)
                            ELSE base[k]]
                    ELSE base
        withParent == IF req.ParentKey # ""
                      THEN [k \in DOMAIN withDesc \cup {"parent"} |->
                              IF k = "parent" THEN [key |-> req.ParentKey]
                              ELSE withDesc[k]]
                      ELSE withDesc
    IN  IF req.AssigneeEmail # ""
        THEN [k \in DOMAIN withParent \cup {"assignee"} |->
                IF k = "assignee" THEN [emailAddress |-> req.AssigneeEmail]
                ELSE withParent[k]]
        ELSE withParent

\* the fields object of the payload of POST /rest/api/3/issue
CreateIssuePayloadFields(req) ==
    LET base == [project |-> [key |-> req.ProjectKey],
                 summary |-> req.Summary,
                 issuetype |-> [name |-> req.IssueType]]
        withDesc == IF req.Description # ""
                    THEN [k \in DOMAIN base \cup {"description"} |->
                            IF k = "description" THEN DescriptionDocument(req.Description)
                            ELSE base[k]]
                    ELSE base
    IN  IF req.ParentKey # ""
        THEN [k \in DOMAIN withDesc \cup {"parent"} |->
                IF k = "parent" THEN [key |-> req.ParentKey] ELSE withDesc[k]]
        ELSE withDesc

\* CreateIssue validating the project key and the summary only
CreateIssueSendNoTypeCheck(c, req) ==
    IF req.ProjectKey = "" \/ req.Summary = ""
    THEN Returned(Return(NilResult,
                LocalError("project_key, summary, and issue_type are required")))
    ELSE LET url == c.baseURL \o "/rest/api/3/issue"
         IN  Sent(HTTPRequest(c, "POST", url, "application/json",
                     JSONBody([fields |-> CreateIssuePayloadFields(req)])))

\* Client.CreateIssue up to the point where the request is on the wire
CreateIssueSend(c, req) ==
    IF req.ProjectKey = "" \/ req.Summary = "" \/ req.IssueType = ""
    THEN Returned(Return(NilResult,
                LocalError("project_key, summary, and issue_type are required")))
    ELSE LET url == c.baseURL \o "/rest/api/3/issue"
         IN  Sent(HTTPRequest(c, "POST", url, "application/json",
                     JSONBody([fields |-> CreateIssuePayloadFields(req)])))

\* a SearchIssues that leaves the fields out only for a nil list
SearchIssuesSendNilCheck(c, jql, maxResults, fields) ==
    IF jql = ""
    THEN Returned(Return(NilResult, LocalError("JQL query cannot be empty")))
    ELSE LET payload == IF ~fields.nil
                        THEN [jql |-> jql, maxResults |-> maxResults,
                              fields |-> fields.elems]
                        ELSE [jql |-> jql, maxResults |-> maxResults]
             url == c.baseURL \o "/rest/api/3/search"
         IN  Sent(HTTPRequest(c, "POST", url, "application/json", JSONBody(payload)))

\* Client.SearchIssues up to the point where the request is on the wire
SearchIssuesSend(c, jql, maxResults, fields) ==
    IF jql = ""
    THEN Returned(Return(NilResult, LocalError("JQL query cannot be empty")))
    ELSE LET payload == IF Len(fields.elems) > 0
                        THEN [jql |-> jql, maxResults |-> maxResults,
                              fields |-> fields.elems]
                        ELSE [jql |-> jql, maxResults |-> maxResults]
             url == c.baseURL \o "/rest/api/3/search"
         IN  Sent(HTTPRequest(c, "POST", url, "application/json", JSONBody(payload)))

\* a GetIssue that appends the fields parameter for every list
GetIssueSendAlwaysQuery(c, issueKey, fields) ==
    IF issueKey = ""
    THEN Returned(Return(NilResult, LocalError("issue key cannot be empty")))
    ELSE LET url == c.baseURL \o "/rest/api/3/issue/" \o issueKey
                      \o "?fields=" \o fieldsCommaSeparated(fields.elems)
         IN  IF issueKey \in UnparsableKeys
             THEN Returned(Return(NilResult, LocalError("failed to create request")))
             ELSE Sent(HTTPRequest(c, "GET", url, "", NoBody))

\* Client.GetIssue up to the point where the request is on the wire
GetIssueSend(c, issueKey, fields) ==
    IF issueKey = ""
    THEN Returned(Return(NilResult, LocalError("issue key cannot be empty")))
    ELSE LET base == c.baseURL \o "/rest/api/3/issue/" \o issueKey
             url == IF Len(fields.elems) > 0
                    THEN base \o "?fields=" \o fieldsCommaSeparated(fields.elems)
                    ELSE base
         IN  IF issueKey \in UnparsableKeys
             THEN Returned(Return(NilResult, LocalError("failed to create request")))
             ELSE Sent(HTTPRequest(c, "GET", url, "", NoBody))

ClientSend(c, call) ==
    CASE call.op = "CreateIssue" -> CreateIssueSend(c, call.req)
      [] call.op = "SearchIssues" ->
            SearchIssuesSend(c, call.jql, call.maxResults, call.fields)
      [] call.op = "GetIssue" -> GetIssueSend(c, call.issueKey, call.fields)

\* json.Decoder.Decode of a 2xx body into CreateIssueResponse
DecodeCreateIssueResponse(body) ==
    IF body.kind = "object"
    THEN Return([kind |-> "CreateIssueResponse",
                 Key |-> Field(body.obj, "key", ""),
                 Self |-> Field(body.obj, "self", "")], NoError)
    ELSE Return(NilResult, LocalError("failed to decode response"))

\* json.Decoder.Decode of one element of issues into Issue
DecodeIssueObject(obj) ==
    [kind |-> "Issue",
     Expand |-> Field(obj, "expand", ""), ID |-> Field(obj, "id", ""),
     Key |-> Field(obj, "key", ""), Self |-> Field(obj, "self", ""),
     Fields |-> Field(obj, "fields", [nofields \in {} |-> ""])]

\* json.Decoder.Decode of a 2xx body into SearchResponse
DecodeSearchResponse(body) ==
    IF body.kind = "object"
    THEN LET issues == Field(body.obj, "issues", <<>>)
             decoded == [i \in 1..Len(issues) |-> DecodeIssueObject(issues[i])]
         IN  Return([kind |-> "SearchResponse",
                     Expand |-> Field(body.obj, "expand", ""),
                     StartAt |-> Field(body.obj, "startAt", 0),
                     MaxResults |-> Field(body.obj, "maxResults", 0),
                     Total |-> Field(body.obj, "total", 0),
                     Issues |-> IF "issues" \in DOMAIN body.obj
                                THEN Slice(decoded) ELSE NilSlice],
                    NoError)
    ELSE Return(NilResult, LocalError("failed to decode search response"))

\* json.Decoder.Decode of a 2xx body into Issue
DecodeIssue(body) ==
    IF body.kind = "object"
    THEN Return(DecodeIssueObject(body.obj), NoError)
    ELSE Return(NilResult, LocalError("failed to decode response"))

\* a status check that takes only 4xx and 5xx for failures
IsErrorStatus(status) == status >= 400

\* the status check shared by the three client methods
IsNon2xx(status) == status < 200 \/ status >= 300

\* http.Client.Do with the default redirect policy: a 307 or 308 answer with
\* a Location header is followed by the same request (method, headers and
\* body) to the new location; the Authorization header is left out when the
\* new location is on another host
RedirectRequest(httpReq, location) ==
    IF location.sameHost
    THEN [httpReq EXCEPT !.url = location.url]
    ELSE [httpReq EXCEPT !.url = location.url, !.authUser = "", !.authPassword = ""]

\* a client method that hands back the decoded body of a failure with the error
ClientReceiveWithBody(call, httpReq, httpResp) ==
    LET decoded == CASE call.op = "CreateIssue" -> DecodeCreateIssueResponse(httpResp.body)
                     [] call.op = "SearchIssues" -> DecodeSearchResponse(httpResp.body)
                     [] call.op = "GetIssue" -> DecodeIssue(httpResp.body)
    IN  IF IsNon2xx(httpResp.status)
        THEN Return(decoded.result,
                    JiraAPIError(httpResp.status, httpResp.body.raw, httpReq.url))
        ELSE decoded

\* the rest of a client method, once the upstream answered httpReq with httpResp
ClientReceive(call, httpReq, httpResp) ==
    IF IsNon2xx(httpResp.status)
    THEN Return(NilResult, JiraAPIError(httpResp.status, httpResp.body.raw, httpReq.url))
    ELSE CASE call.op = "CreateIssue" -> DecodeCreateIssueResponse(httpResp.body)
           [] call.op = "SearchIssues" -> DecodeSearchResponse(httpResp.body)
           [] call.op = "GetIssue" -> DecodeIssue(httpResp.body)

\* the rest of a client method when httpClient.Do returned an error
ClientTransportError(call, cause) ==
    Return(NilResult,
           LocalError(CASE call.op = "CreateIssue" ->
                             "failed to send request to JIRA API: " \o cause
                        [] call.op = "SearchIssues" ->
                             "failed to send search request: " \o cause
                        [] call.op = "GetIssue" ->
                             "failed to send request: " \o cause))

(***************************************************************************)
(* internal/handlers: the HTTP handlers.                                   *)
(***************************************************************************)
DefaultMaxResults == 50

\* the JSON value null, as a nil slice or map is encoded
JSONNull == [null |-> TRUE]

\* json.Encoder.Encode of an Issue: its members under their json tags
EncodeIssue(issue) ==
    [expand |-> issue.Expand, id |-> issue.ID, key |-> issue.Key, self |-> issue.Self,
     fields |-> IF DOMAIN issue.Fields = {} THEN JSONNull ELSE issue.Fields]

\* an encoder that writes the issues of a search result in reverse order
EncodeJSONReversed(payload) ==
    IF "kind" \notin DOMAIN payload THEN payload
    ELSE CASE payload.kind = "SearchResponse" ->
                [expand |-> payload.Expand, startAt |-> payload.StartAt,
                 maxResults |-> payload.MaxResults, total |-> payload.Total,
                 issues |-> IF payload.Issues.nil THEN JSONNull
                            ELSE [i \in 1..Len(payload.Issues.elems) |->
                                    EncodeIssue(payload.Issues.elems[
                                        Len(payload.Issues.elems) + 1 - i])]]
           [] payload.kind = "Issue" -> EncodeIssue(payload)
           [] payload.kind = "CreateIssueResponse" ->
                [key |-> payload.Key, self |-> payload.Self]
           [] OTHER -> JSONNull

\* json.Encoder.Encode of a payload: a map as it is, a result of the client
\* under the json tags of its struct
EncodeJSON(payload) ==
    IF "kind" \notin DOMAIN payload THEN payload
    ELSE CASE payload.kind = "SearchResponse" ->
                [expand |-> payload.Expand, startAt |-> payload.StartAt,
                 maxResults |-> payload.MaxResults, total |-> payload.Total,
                 issues |-> IF payload.Issues.nil THEN JSONNull
                            ELSE [i \in 1..Len(payload.Issues.elems) |->
                                    EncodeIssue(payload.Issues.elems[i])]]
           [] payload.kind = "Issue" -> EncodeIssue(payload)
           [] payload.kind = "CreateIssueResponse" ->
                [key |-> payload.Key, self |-> payload.Self]
           [] OTHER -> JSONNull

\* the response an http.ResponseWriter has been given
respondWithJSON(code, payload) ==
    [kind |-> "response", status |-> code, contentType |-> "application/json",
     body |-> EncodeJSON(payload)]

respondWithError(code, message) == respondWithJSON(code, [error |-> message])

\* net/http.Error: a plain-text body
httpError(message, code) ==
    [kind |-> "response", status |-> code,
     contentType |-> "text/plain; charset=utf-8", body |-> [text |-> message]]

\* a type assertion in place of errors.As: no unwrapping
errorsAsDirect(err) == IF err.kind = "JiraAPIError" THEN err ELSE NoError

\* errors.As(err, &jiraAPIError): the first JiraAPIError in err's chain
RECURSIVE errorsAs(_)
errorsAs(err) ==
    IF err.kind = "JiraAPIError" THEN err
    ELSE IF err.kind = "wrapped" THEN errorsAs(err.inner)
    ELSE NoError

\* a mapping that hands the text of a local error to the caller
mapJiraErrorVerbose(err) ==
    IF err = NoError THEN [code |-> 200, msg |-> ""]
    ELSE LET jiraAPIError == errorsAs(err)
         IN  IF jiraAPIError # NoError
             THEN CASE jiraAPIError.StatusCode = 400 ->
                         [code |-> 400, msg |-> "Invalid request data sent to JIRA."]
                    [] jiraAPIError.StatusCode = 401 ->
                         [code |-> 401, msg |-> "Authentication failed with JIRA."]
                    [] jiraAPIError.StatusCode = 403 ->
                         [code |-> 403, msg |-> "Permission denied by JIRA."]
                    [] jiraAPIError.StatusCode = 404 ->
                         [code |-> 404, msg |-> "JIRA resource not found."]
                    [] OTHER ->
                         [code |-> 500,
                          msg |-> "An unexpected error occurred while communicating with JIRA."]
             ELSE [code |-> 500,
                   msg |-> IF err.kind = "error" THEN err.msg
                           ELSE "An internal server error occurred."]

mapJiraError(err) ==
    IF err = NoError THEN [code |-> 200, msg |-> ""]
    ELSE LET jiraAPIError == errorsAs(err)
         IN  IF jiraAPIError # NoError
             THEN CASE jiraAPIError.StatusCode = 400 ->
                         [code |-> 400, msg |-> "Invalid request data sent to JIRA."]
                    [] jiraAPIError.StatusCode = 401 ->
                         [code |-> 401, msg |-> "Authentication failed with JIRA."]
                    [] jiraAPIError.StatusCode = 403 ->
                         [code |-> 403, msg |-> "Permission denied by JIRA."]
                    [] jiraAPIError.StatusCode = 404 ->
                         [code |-> 404, msg |-> "JIRA resource not found."]
                    [] OTHER ->
                         [code |-> 500,
                          msg |-> "An unexpected error occurred while communicating with JIRA."]
             ELSE [code |-> 500, msg |-> "An internal server error occurred."]

\* a decode whose error is dropped: the request keeps its zero value
DecodeCreateIssueRequestLenient(body) ==
    [ok |-> TRUE,
     req |-> IF body.kind = "object"
             THEN [ProjectKey |-> Field(body.obj, "project_key", ""),
                   Summary |-> Field(body.obj, "summary", ""),
                   IssueType |-> Field(body.obj, "issue_type", ""),
                   Description |-> Field(body.obj, "description", ""),
                   AssigneeEmail |-> Field(body.obj, "assignee_email", ""),
                   ParentKey |-> Field(body.obj, "parent_key", "")]
             ELSE [ProjectKey |-> "", Summary |-> "", IssueType |-> "",
                   Description |-> "", AssigneeEmail |-> "", ParentKey |-> ""]]

\* json.Decoder.Decode of the inbound body into jira.CreateIssueRequest
DecodeCreateIssueRequest(body) ==
    IF body.kind = "object"
    THEN [ok |-> TRUE,
          req |-> [ProjectKey |-> Field(body.obj, "project_key", ""),
                   Summary |-> Field(body.obj, "summary", ""),
                   IssueType |-> Field(body.obj, "issue_type", ""),
                   Description |-> Field(body.obj, "description", ""),
                   AssigneeEmail |-> Field(body.obj, "assignee_email", ""),
                   ParentKey |-> Field(body.obj, "parent_key", "")]]
    ELSE [ok |-> FALSE, req |-> NoRequest]

\* json.Decoder.Decode of the inbound body into SearchRequest
DecodeSearchRequest(body) ==
    IF body.kind = "object"
    THEN [ok |-> TRUE,
          req |-> [JQL |-> Field(body.obj, "jql", ""),
                   MaxResults |-> Field(body.obj, "maxResults", 0),
                   Fields |-> IF "fields" \in DOMAIN body.obj
                              THEN Slice(body.obj["fields"]) ELSE NilSlice]]
    ELSE [ok |-> FALSE, req |-> NoRequest]

\* a sequence of one-character strings as a string
RECURSIVE Str(_)
Str(cs) == IF cs = <<>> THEN "" ELSE Head(cs) \o Str(Tail(cs))

\* strings.Split(s, ","), s a sequence of characters
RECURSIVE SplitComma(_, _)
SplitComma(cs, cur) ==
    IF cs = <<>> THEN <<Str(cur)>>
    ELSE IF Head(cs) = "," THEN <<Str(cur)>> \o SplitComma(Tail(cs), <<>>)
    ELSE SplitComma(Tail(cs), Append(cur, Head(cs)))

\* a handler that calls the service with context.Background()
BackgroundContext(requestContext) == "live"

\* ctx := r.Context(): the context a handler hands to the service
CallContext(requestContext) == requestContext

\* a handler either answers at once or calls the service
Respond(resp) == [response |-> resp, call |-> NoCall]
CallService(call) == [response |-> NoResponse, call |-> call]

\* the create handler decoding the body before it looks at the method
CreateJiraIssueHandlerStartDecodeFirst(r) ==
    LET d == DecodeCreateIssueRequest(r.body)
    IN  IF ~d.ok
        THEN Respond(respondWithError(400, "Invalid request body"))
        ELSE IF r.method # "POST"
        THEN Respond(httpError("Method not allowed", 405))
        ELSE CallService([op |-> "CreateIssue", req |-> d.req])

\* CreateJiraIssueHandler up to its call of JiraSvc.CreateIssue
CreateJiraIssueHandlerStart(r) ==
    IF r.method # "POST"
    THEN Respond(httpError("Method not allowed", 405))
    ELSE LET d == DecodeCreateIssueRequest(r.body)
         IN  IF ~d.ok
             THEN Respond(respondWithError(400, "Invalid request body"))
             ELSE CallService([op |-> "CreateIssue", req |-> d.req])

\* a default applied to negative counts only
SearchMaxResultsNegativeOnly(n) == IF n < 0 THEN DefaultMaxResults ELSE n

\* the maxResults the search handler passes on
SearchMaxResults(n) == IF n <= 0 THEN DefaultMaxResults ELSE n

\* the search handler without its check of the jql field
SearchIssuesHandlerStartNoJQLCheck(r) ==
    IF r.method # "POST"
    THEN Respond(respondWithError(405, "Method not allowed"))
    ELSE LET d == DecodeSearchRequest(r.body)
         IN  IF ~d.ok
             THEN Respond(respondWithError(400, "Invalid request body"))
             ELSE CallService([op |-> "SearchIssues", jql |-> d.req.JQL,
                               maxResults |-> SearchMaxResults(d.req.MaxResults),
                               fields |-> d.req.Fields])

\* SearchIssuesHandler up to its call of JiraSvc.SearchIssues
SearchIssuesHandlerStart(r) ==
    IF r.method # "POST"
    THEN Respond(respondWithError(405, "Method not allowed"))
    ELSE LET d == DecodeSearchRequest(r.body)
         IN  IF ~d.ok
             THEN Respond(respondWithError(400, "Invalid request body"))
             ELSE IF d.req.JQL = ""
             THEN Respond(respondWithError(400, "Missing required field: jql"))
             ELSE CallService([op |-> "SearchIssues", jql |-> d.req.JQL,
                               maxResults |-> SearchMaxResults(d.req.MaxResults),
                               fields |-> d.req.Fields])

\* an issue handler that drops the empty segments of the fields value
GetIssueDetailsHandlerStartDropEmpty(r) ==
    IF r.method # "GET"
    THEN Respond(respondWithError(405, "Method not allowed"))
    ELSE LET issueKey == Field(r.vars, "issueKey", "")
         IN  IF issueKey = ""
             THEN Respond(respondWithError(400, "Missing issue key in URL path"))
             ELSE CallService([op |-> "GetIssue", issueKey |-> issueKey,
                               fields |-> IF r.fieldsQuery # <<>>
                                          THEN Slice(SelectSeq(SplitComma(r.fieldsQuery, <<>>),
                                                               LAMBDA f : f # ""))
                                          ELSE NilSlice])

\* GetIssueDetailsHandler up to its call of JiraSvc.GetIssue
GetIssueDetailsHandlerStart(r) ==
    IF r.method # "GET"
    THEN Respond(respondWithError(405, "Method not allowed"))
    ELSE LET issueKey == Field(r.vars, "issueKey", "")
         IN  IF issueKey = ""
             THEN Respond(respondWithError(400, "Missing issue key in URL path"))
             ELSE CallService([op |-> "GetIssue", issueKey |-> issueKey,
                               fields |-> IF r.fieldsQuery # <<>>
                                          THEN Slice(SplitComma(r.fieldsQuery, <<>>))
                                          ELSE NilSlice])

\* the epic handler without its check of the path parameter
GetIssuesInEpicHandlerStartNoKeyCheck(r) ==
    IF r.method # "GET"
    THEN Respond(respondWithError(405, "Method not allowed"))
    ELSE LET epicKey == Field(r.vars, "epicKey", "")
         IN  CallService([op |-> "SearchIssues",
                          jql |-> "'" \o EpicLinkFieldName \o "' = '" \o epicKey \o "'",
                          maxResults |-> 50, fields |-> NilSlice])

\* the epic handler with the field name unquoted
GetIssuesInEpicHandlerStartUnquoted(r) ==
    IF r.method # "GET"
    THEN Respond(respondWithError(405, "Method not allowed"))
    ELSE LET epicKey == Field(r.vars, "epicKey", "")
         IN  IF epicKey = ""
             THEN Respond(respondWithError(400, "Missing epic key in URL path"))
             ELSE CallService([op |-> "SearchIssues",
                               jql |-> EpicLinkFieldName \o " = '" \o epicKey \o "'",
                               maxResults |-> 50, fields |-> NilSlice])

\* GetIssuesInEpicHandler up to its call of JiraSvc.SearchIssues
GetIssuesInEpicHandlerStart(r) ==
    IF r.method # "GET"
    THEN Respond(respondWithError(405, "Method not allowed"))
    ELSE LET epicKey == Field(r.vars, "epicKey", "")
         IN  IF epicKey = ""
             THEN Respond(respondWithError(400, "Missing epic key in URL path"))
             ELSE CallService([op |-> "SearchIssues",
                               jql |-> "'" \o EpicLinkFieldName \o "' = '" \o epicKey \o "'",
                               maxResults |-> 50, fields |-> NilSlice])

HandlerStart(h, r) ==
    CASE h = "create" -> CreateJiraIssueHandlerStart(r)
      [] h = "search" -> SearchIssuesHandlerStart(r)
      [] h = "issue" -> GetIssueDetailsHandlerStart(r)
      [] h = "epic" -> GetIssuesInEpicHandlerStart(r)

\* JiraAPIError.Error() and the text of the other errors
RECURSIVE ErrorText(_)
ErrorText(err) ==
    CASE err.kind = "JiraAPIError" ->
            "JIRA API error: message: " \o err.Message \o " (URL: " \o err.URL \o ")"
      [] err.kind = "wrapped" -> "wrapped: " \o ErrorText(err.inner)
      [] OTHER -> err.msg

\* a handler that answers with the error's own text
HandlerFinishErrorText(h, ret) ==
    IF ret.err # NoError
    THEN respondWithError(mapJiraError(ret.err).code, ErrorText(ret.err))
    ELSE IF h = "create"
    THEN respondWithJSON(201, [message |-> "JIRA issue created successfully",
                               key |-> ret.result.Key, url |-> ret.result.Self])
    ELSE respondWithJSON(200, ret.result)

\* a handler that answers a created issue with 200
HandlerFinishStatusOK(h, ret) ==
    IF ret.err # NoError
    THEN LET m == mapJiraError(ret.err) IN respondWithError(m.code, m.msg)
    ELSE IF h = "create"
    THEN respondWithJSON(200, [message |-> "JIRA issue created successfully",
                               key |-> ret.result.Key, url |-> ret.result.Self])
    ELSE respondWithJSON(200, ret.result)

\* the rest of a handler, once the service returned ret
HandlerFinish(h, ret) ==
    IF ret.err # NoError
    THEN LET m == mapJiraError(ret.err) IN respondWithError(m.code, m.msg)
    ELSE IF h = "create"
    THEN respondWithJSON(201, [message |-> "JIRA issue created successfully",
                               key |-> ret.result.Key, url |-> ret.result.Self])
    ELSE respondWithJSON(200, ret.result)

(***************************************************************************)
(* cmd/main.go: the configuration main loads and verifies.                 *)
(***************************************************************************)
RequiredKeys == {"JIRA_URL", "JIRA_USER_EMAIL", "JIRA_API_TOKEN"}

EnvPrefix == "JIRA_MCP"

\* viper.GetString: a non-empty prefixed environment variable, else the
\* value of the configuration file, else the default (the empty string)
ViperGetString(e, file, key) ==
    LET name == EnvPrefix \o "_" \o key
    IN  IF name \in DOMAIN e /\ e[name] # "" THEN e[name]
        ELSE IF file.kind = "yaml" /\ key \in DOMAIN file.values THEN file.values[key]
        ELSE ""

\* the loop of main over requiredKeys finds every value set
RequiredConfigurationSet(e, file) ==
    \A key \in RequiredKeys : ViperGetString(e, file, key) # ""

(***************************************************************************)
(* cmd/main.go: the routes registered on the mux router.                   *)
(***************************************************************************)
Lit(s) == [var |-> FALSE, name |-> s]
Var(s) == [var |-> TRUE, name |-> s]

\* r.HandleFunc(template, handler).Methods(method), in registration order
Routes ==
    << [tpl |-> <<Lit("create_jira_issue")>>, method |-> "POST", handler |-> "create"],
       [tpl |-> <<Lit("search_jira_issues")>>, method |-> "POST", handler |-> "search"],
       [tpl |-> <<Lit("jira_issue"), Var("issueKey")>>, method |-> "GET",
        handler |-> "issue"],
       [tpl |-> <<Lit("jira_epic"), Var("epicKey"), Lit("issues")>>, method |-> "GET",
        handler |-> "epic"] >>

\* a path variable {name} matches one non-empty segment ([^/]+)
MuxVarMatches(seg) == seg # ""

\* the path matcher of a route: path is the sequence of segments after each "/"
MuxPathMatches(tpl, path) ==
    /\ Len(path) = Len(tpl)
    /\ \A i \in 1..Len(tpl) :
          IF tpl[i].var THEN MuxVarMatches(path[i]) ELSE path[i] = tpl[i].name

\* mux.Vars of a request matched by a route
MuxVars(tpl, path) ==
    LET idx == {i \in 1..Len(tpl) : tpl[i].var}
    IN  [n \in {tpl[i].name : i \in idx} |->
            path[CHOOSE i \in idx : tpl[i].name = n]]

\* Router.Match: the first route matching path and method; a path match with
\* another method gives 405, no path match gives 404
MuxMatch(method, path) ==
    LET full == {i \in 1..Len(Routes) :
                    MuxPathMatches(Routes[i].tpl, path) /\ Routes[i].method = method}
        byPath == {i \in 1..Len(Routes) : MuxPathMatches(Routes[i].tpl, path)}
    IN  IF full # {}
        THEN LET i == CHOOSE j \in full : \A k \in full : j <= k
             IN  [kind |-> "route", handler |-> Routes[i].handler,
                  vars |-> MuxVars(Routes[i].tpl, path)]
        ELSE IF byPath # {}
        THEN [kind |-> "methodNotAllowed"]
        ELSE [kind |-> "notFound"]

\* mux's methodNotAllowedHandler and http.NotFoundHandler
MuxMethodNotAllowed ==
    [kind |-> "response", status |-> 405, contentType |-> "", body |-> [text |-> ""]]
MuxNotFound == httpError("404 page not found", 404)

(***************************************************************************)
(* Inputs.                                                                 *)
(***************************************************************************)
Methods == {"GET", "POST", "DELETE"}
Counts == (0 - 1) .. MaxCount
IssueKeys == {"", "PROJ-1", "K%zz"}
EpicKeys == {"", "EPIC-1", "E'1"}
FieldsQueries == { <<>>, <<"a">>, <<"a", ",", "b">>, <<",">> }
FieldLists == { <<>>, <<"summary">>, <<"summary", "status">> }
FieldSlices == {NilSlice} \cup {Slice(l) : l \in FieldLists}

EmptyBody == [kind |-> "malformed", raw |-> ""]
MalformedBodies ==
    { EmptyBody, [kind |-> "malformed", raw |-> "{invalid json"],
      [kind |-> "malformed", raw |-> "{jql: 5}"] }

CreateKeys ==
    {"project_key", "summary", "issue_type", "description", "assignee_email",
     "parent_key"}
CreateObjects ==
    { Restrict(f, S) :
        f \in [project_key : {"", "PROJ"}, summary : {"", "S"}, issue_type : {"", "Task"},
               description : {"hello"}, assignee_email : {"a@example.com"},
               parent_key : {"PROJ-100"}],
        S \in SUBSET CreateKeys }

SearchKeys == {"jql", "maxResults", "max_results", "fields"}
SearchObjects ==
    { Restrict(f, S) :
        f \in [jql : {"", "project = PROJ"}, maxResults : Counts, max_results : Counts,
               fields : FieldLists],
        S \in SUBSET SearchKeys }

ObjectBody(obj) == [kind |-> "object", obj |-> obj]

BodiesFor(h) ==
    CASE h = "create" -> MalformedBodies \cup {ObjectBody(o) : o \in CreateObjects}
      [] h = "search" -> MalformedBodies \cup {ObjectBody(o) : o \in SearchObjects}
      [] OTHER -> {EmptyBody}

NoVars == [n \in {} |-> ""]

VarsFor(h) ==
    CASE h = "issue" -> {NoVars} \cup {[issueKey |-> k] : k \in IssueKeys}
      [] h = "epic" -> {NoVars} \cup {[epicKey |-> k] : k \in EpicKeys}
      [] OTHER -> {NoVars}

QueriesFor(h) == IF h = "issue" THEN FieldsQueries ELSE { <<>> }

InboundRequest(method, path, vars, fieldsQuery, body) ==
    [kind |-> "http", method |-> method, path |-> path, vars |-> vars,
     fieldsQuery |-> fieldsQuery, body |-> body]

Handlers == {"create", "search", "issue", "epic"}

\* the requests a test hands to handler h directly (mux.SetURLVars sets vars)
DirectRequests(h) ==
    { InboundRequest(m, <<>>, v, q, b) :
        m \in Methods, v \in VarsFor(h), q \in QueriesFor(h), b \in BodiesFor(h) }

\* the paths requested from the router, each with the handler whose inputs it takes
RouterPaths ==
    { [path |-> <<"create_jira_issue">>, like |-> "create"],
      [path |-> <<"search_jira_issues">>, like |-> "search"],
      [path |-> <<"jira_issue">>, like |-> "issue"],
      [path |-> <<"jira_epic">>, like |-> "epic"],
      [path |-> <<"health">>, like |-> "epic"] }
    \cup { [path |-> <<"jira_issue", k>>, like |-> "issue"] : k \in IssueKeys }
    \cup { [path |-> <<"jira_epic", k, "issues">>, like |-> "epic"] : k \in EpicKeys }
    \cup { [path |-> <<"jira_epic", k>>, like |-> "epic"] : k \in EpicKeys }

UpstreamStatuses ==
    {100, 200, 201, 204, 299, 300, 302, 400, 401, 402, 403, 404, 409, 500, 503, 599}

UpstreamBodies ==
    { [kind |-> "object", raw |-> "{key:PROJ-123,self:https://x/issue/123}",
       obj |-> [key |-> "PROJ-123", self |-> "https://x/issue/123"]],
      [kind |-> "object",
       raw |-> "{startAt:5,maxResults:50,total:7,issues:[PROJ-2,PROJ-1]}",
       obj |-> [startAt |-> 5, maxResults |-> 50, total |-> 7,
                issues |-> << [id |-> "10002", key |-> "PROJ-2",
                               self |-> "https://x/issue/2",
                               fields |-> [summary |-> "Second issue",
                                           labels |-> <<"b", "a">>]],
                              [id |-> "10001", key |-> "PROJ-1",
                               self |-> "https://x/issue/1",
                               fields |-> [summary |-> "First issue"]] >>]],
      [kind |-> "object", raw |-> "{errorMessages:[not found]}",
       obj |-> [errorMessages |-> <<"not found">>]],
      [kind |-> "text", raw |-> "<html>Bad Gateway</html>",
       obj |-> [none \in {} |-> ""]] }

UpstreamResponses == [kind : {"upstream"}, status : UpstreamStatuses, body : UpstreamBodies]

\* where the upstream may redirect a request to
RedirectLocations ==
    { [url |-> "https://jira.test/moved", sameHost |-> TRUE],
      [url |-> "https://other.test/moved", sameHost |-> FALSE] }

\* what httpClient.Do reports when the upstream cannot be reached
TransportFailures == {"dial tcp 10.0.0.5:443: connect: connection refused"}

\* what a test double of JiraService returns
RECURSIVE WrappedErrors(_, _)
WrappedErrors(errs, n) ==
    IF n = 0 THEN errs
    ELSE errs \cup {WrapError(e) : e \in WrappedErrors(errs, n - 1)}

MockErrors ==
    WrappedErrors(
        { JiraAPIError(s, b.raw, "http://jira.example.com/rest/api/3/x") :
            s \in UpstreamStatuses \ (200..299), b \in UpstreamBodies }
        \cup { LocalError("some internal processing error") }, MaxWrap)

MockResult(op) ==
    CASE op = "CreateIssue" ->
            [kind |-> "CreateIssueResponse", Key |-> "PROJ-123",
             Self |-> "http://jira.example.com/rest/api/2/issue/10001"]
      [] op = "SearchIssues" ->
            [kind |-> "SearchResponse", Expand |-> "", StartAt |-> 0, MaxResults |-> 10,
             Total |-> 0, Issues |-> Slice(<<>>)]
      [] op = "GetIssue" ->
            [kind |-> "Issue", Expand |-> "", ID |-> "", Key |-> "PROJ-1",
             Self |-> "http://jira.example.com/rest/api/2/issue/10001",
             Fields |-> [summary |-> "Test Issue"]]

MockReturns(op) ==
    {Return(MockResult(op), NoError)} \cup {Return(NilResult, e) : e \in MockErrors}

\* the calls a test makes on the client directly
DirectCalls ==
    { [op |-> "CreateIssue", req |-> DecodeCreateIssueRequest(ObjectBody(o)).req] :
        o \in CreateObjects }
    \cup { [op |-> "SearchIssues", jql |-> j, maxResults |-> n, fields |-> f] :
             j \in {"", "project = PROJ"}, n \in Counts, f \in FieldSlices }
    \cup { [op |-> "GetIssue", issueKey |-> k, fields |-> f] :
             k \in IssueKeys, f \in FieldSlices }

\* the environment of a running server: the variables main verifies, the
\* variables NewClient reads and the documented custom field id of the epic link
DefaultEnvironment ==
    [JIRA_MCP_JIRA_URL |-> "https://jira.test",
     JIRA_MCP_JIRA_USER_EMAIL |-> "bot@example.com",
     JIRA_MCP_JIRA_API_TOKEN |-> "secret-token",
     JIRA_URL |-> "https://jira.test",
     JIRA_USER_EMAIL |-> "bot@example.com",
     JIRA_API_TOKEN |-> "secret-token",
     JIRA_MCP_EPIC_LINK_FIELD_ID |-> "customfield_10014"]

Environments ==
    { [DefaultEnvironment EXCEPT !.JIRA_MCP_EPIC_LINK_FIELD_ID = f] :
        f \in {"customfield_10014", "customfield_10008"} }

\* the environments a process or a test may be started with: each variable
\* is unset (or empty) or has its value
StartEnvironments ==
    { [k \in DOMAIN DefaultEnvironment |->
         IF k \in S \cup {"JIRA_MCP_EPIC_LINK_FIELD_ID"}
         THEN DefaultEnvironment[k] ELSE ""] :
      S \in SUBSET (DOMAIN DefaultEnvironment \ {"JIRA_MCP_EPIC_LINK_FIELD_ID"}) }

\* ./config.yaml: not there, not parsable, or a map of keys to values
NoConfigFile == [kind |-> "absent"]
MalformedConfigFile == [kind |-> "malformed"]
ConfigFiles ==
    {NoConfigFile, MalformedConfigFile}
    \cup { [kind |-> "yaml",
            values |-> [k \in S |-> DefaultEnvironment[k]]] :
           S \in SUBSET RequiredKeys }

\* the http.Client a caller hands to NewClient
HTTPClients == {NilHTTPClient, "server.Client()"}

(***************************************************************************)
(* State.                                                                  *)
(***************************************************************************)
VARIABLES
    pc,        \* "idle", "inflight" (blocked in the service call) or "done"
    entry,     \* how the work entered: "router", "handler", "client" or "none"
    handler,   \* the handler serving the request, "none" for a direct client call
    svc,       \* the JiraSvc of the handlers: the "client" or a "mock"
    inbound,   \* the inbound HTTP request
    svcCalls,  \* the calls made on the service for this request
    sent,      \* the HTTP requests sent to the upstream for this request
    upstream,  \* the upstream's answer
    ret,       \* what the service call returned
    response,  \* the outward response written
    twin,      \* the outward response to the same request, had the upstream
               \* failed with the same status but another body and URL
    client,    \* the client's configuration
    env,       \* the environment variables the process was started with
    proc,      \* where main is: "start", "configRead", "verified",
               \* "constructed", "listening" or "exited"; "test" when a test
               \* constructed the client itself
    configFile,   \* ./config.yaml
    constructed,  \* what NewClient returned
    ctx,          \* the context of the inbound request: "live" or "cancelled"
    conc          \* the requests served at the same time, each by the
                  \* goroutine net/http starts for it

vars == << pc, entry, handler, svc, inbound, svcCalls, sent, upstream, ret, response,
           twin, client, conc, env, proc, configFile, constructed, ctx >>

\* a goroutine of the server that serves no request
IdleRequest ==
    [pc |-> "idle", handler |-> "none", inbound |-> NoRequest, svcCalls |-> <<>>,
     sent |-> <<>>, upstream |-> NoResponse, ret |-> NoReturn, response |-> NoResponse]

Init ==
    /\ pc = "idle"
    /\ entry = "none"
    /\ handler = "none"
    /\ svc = "client"
    /\ inbound = NoRequest
    /\ svcCalls = <<>>
    /\ sent = <<>>
    /\ upstream = NoResponse
    /\ ret = NoReturn
    /\ response = NoResponse
    /\ twin = NoResponse
    /\ client = ClientConfig
    /\ env = DefaultEnvironment
    /\ proc = "listening"
    /\ configFile = NoConfigFile
    /\ constructed = Constructed(DefaultEnvironment, NilHTTPClient)
    /\ ctx = "live"
    /\ conc = [i \in 1..MaxRequests |-> IdleRequest]

\* handler h, with service s and client configuration c, runs on request r
\* until it has answered or blocks in the service
Served(c, h, s, r) ==
    LET st == HandlerStart(h, r)
        called == st.call.op # "none"
        cs == IF called /\ s = "client" THEN ClientSend(c, st.call)
              ELSE Returned(NoReturn)
        resp == IF ~called THEN st.response
                ELSE IF cs.ret.kind = "return" THEN HandlerFinish(h, cs.ret)
                ELSE NoResponse
    IN  [svcCalls |-> IF called THEN <<st.call>> ELSE <<>>,
         sent |-> cs.sends,
         ret |-> cs.ret,
         response |-> resp,
         pc |-> IF resp.kind = "response" THEN "done" ELSE "inflight"]

Begin(e, h, s, r) ==
    LET o == Served(client, h, s, r)
    IN  /\ entry' = e
        /\ handler' = h
        /\ svc' = s
        /\ inbound' = r
        /\ svcCalls' = o.svcCalls
        /\ sent' = o.sent
        /\ ret' = o.ret
        /\ response' = o.response
        /\ pc' = o.pc
        /\ UNCHANGED << upstream, twin, client, conc, env, proc, configFile, constructed, ctx >>

Services == {"client", "mock"}

CreateJiraIssueHandler ==
    /\ pc = "idle"
    /\ \E s \in Services, r \in DirectRequests("create") : Begin("handler", "create", s, r)

SearchIssuesHandler ==
    /\ pc = "idle"
    /\ \E s \in Services, r \in DirectRequests("search") : Begin("handler", "search", s, r)

GetIssueDetailsHandler ==
    /\ pc = "idle"
    /\ \E s \in Services, r \in DirectRequests("issue") : Begin("handler", "issue", s, r)

GetIssuesInEpicHandler ==
    /\ pc = "idle"
    /\ \E s \in Services, r \in DirectRequests("epic") : Begin("handler", "epic", s, r)

\* the router of main serves a request: dispatch to a handler, 405 or 404
RouterServeHTTP ==
    /\ pc = "idle"
    /\ \E m \in Methods, p \in RouterPaths :
         \E q \in QueriesFor(p.like), b \in BodiesFor(p.like) :
            LET mt == MuxMatch(m, p.path)
            IN  IF mt.kind = "route"
                THEN Begin("router", mt.handler, "client",
                           InboundRequest(m, p.path, mt.vars, q, b))
                ELSE /\ entry' = "router"
                     /\ handler' = "none"
                     /\ svc' = "client"
                     /\ inbound' = InboundRequest(m, p.path, NoVars, q, b)
                     /\ svcCalls' = <<>>
                     /\ sent' = <<>>
                     /\ ret' = NoReturn
                     /\ response' = IF mt.kind = "methodNotAllowed"
                                    THEN MuxMethodNotAllowed ELSE MuxNotFound
                     /\ pc' = "done"
                     /\ UNCHANGED << upstream, twin, client, conc, env, proc, configFile, constructed, ctx >>

\* a client method is called directly
ClientCall(call) ==
    LET cs == ClientSend(client, call)
    IN  /\ pc = "idle"
        /\ entry' = "client"
        /\ handler' = "none"
        /\ svc' = "client"
        /\ inbound' = NoRequest
        /\ svcCalls' = <<call>>
        /\ sent' = cs.sends
        /\ ret' = cs.ret
        /\ response' = NoResponse
        /\ pc' = IF cs.ret.kind = "return" THEN "done" ELSE "inflight"
        /\ UNCHANGED << upstream, twin, client, conc, env, proc, configFile, constructed, ctx >>

CreateIssue == \E call \in DirectCalls : call.op = "CreateIssue" /\ ClientCall(call)

SearchIssues == \E call \in DirectCalls : call.op = "SearchIssues" /\ ClientCall(call)

GetIssue == \E call \in DirectCalls : call.op = "GetIssue" /\ ClientCall(call)

\* the outward response once the service call returned r
Outward(r) == IF handler = "none" THEN NoResponse ELSE HandlerFinish(handler, r)

\* the upstream answers the request on the wire; the client method and the
\* handler run to their end
UpstreamResponds ==
    /\ pc = "inflight"
    /\ svc = "client"
    /\ CallContext(ctx) = "live"
    /\ \E httpResp \in UpstreamResponses, body2 \in UpstreamBodies,
          url2 \in {sent[1].url, "https://other.test/rest/api/3/issue/OTHER-9"} :
         LET r == ClientReceive(svcCalls[1], sent[1], httpResp)
             r2 == ClientReceive(svcCalls[1], [sent[1] EXCEPT !.url = url2],
                                 [httpResp EXCEPT !.body = body2])
         IN  /\ upstream' = httpResp
             /\ ret' = r
             /\ response' = Outward(r)
             /\ twin' = IF IsNon2xx(httpResp.status) THEN Outward(r2) ELSE NoResponse
    /\ pc' = "done"
    /\ UNCHANGED << entry, handler, svc, inbound, svcCalls, sent, client, conc, env, proc, configFile, constructed, ctx >>

\* the upstream answers the request on the wire with a redirect; inside
\* httpClient.Do the request is sent again to the new location
UpstreamRedirects ==
    /\ pc = "inflight"
    /\ svc = "client"
    /\ CallContext(ctx) = "live"
    /\ Len(sent) <= MaxRedirects
    /\ \E location \in RedirectLocations :
         sent' = Append(sent, RedirectRequest(sent[Len(sent)], location))
    /\ UNCHANGED << pc, entry, handler, svc, inbound, svcCalls, upstream, ret, response,
                    twin, client, conc, env, proc, configFile, constructed, ctx >>

\* the caller of the server goes away (or the deadline of the request
\* fires) while the handler is blocked in the call of the client
InboundCancelled ==
    /\ pc = "inflight"
    /\ handler # "none"
    /\ svc = "client"
    /\ ctx = "live"
    /\ ctx' = "cancelled"
    /\ UNCHANGED << pc, entry, handler, svc, inbound, svcCalls, sent, upstream, ret,
                    response, twin, client, conc, env, proc, configFile, constructed >>

\* httpClient.Do returns the error of the cancelled context of its request
ContextDone ==
    /\ pc = "inflight"
    /\ svc = "client"
    /\ CallContext(ctx) = "cancelled"
    /\ ret' = ClientTransportError(svcCalls[1], "context canceled")
    /\ response' = Outward(ret')
    /\ pc' = "done"
    /\ UNCHANGED << entry, handler, svc, inbound, svcCalls, sent, upstream, twin,
                    client, conc, env, proc, configFile, constructed, ctx >>

\* httpClient.Do fails: no connection to the upstream
TransportError ==
    /\ pc = "inflight"
    /\ svc = "client"
    /\ \E cause \in TransportFailures : ret' = ClientTransportError(svcCalls[1], cause)
    /\ response' = Outward(ret')
    /\ pc' = "done"
    /\ UNCHANGED << entry, handler, svc, inbound, svcCalls, sent, upstream, twin, client, conc, env, proc, configFile, constructed, ctx >>

\* the errors of the mock that carry the same upstream status as err
SameStatusErrors(err) ==
    IF errorsAs(err) = NoError THEN {err}
    ELSE {e \in MockErrors : /\ errorsAs(e) # NoError
                             /\ errorsAs(e).StatusCode = errorsAs(err).StatusCode}

\* the test double of the service returns
MockServiceReturns ==
    /\ pc = "inflight"
    /\ svc = "mock"
    /\ \E r \in MockReturns(svcCalls[1].op) :
         \E e2 \in SameStatusErrors(r.err) :
            /\ ret' = r
            /\ response' = Outward(r)
            /\ twin' = IF errorsAs(r.err) # NoError
                       THEN Outward(Return(NilResult, e2)) ELSE NoResponse
    /\ pc' = "done"
    /\ UNCHANGED << entry, handler, svc, inbound, svcCalls, sent, upstream, client, conc, env, proc, configFile, constructed, ctx >>

\* the request is over; the next one starts from the same configuration
NextRequest ==
    /\ pc = "done"
    /\ pc' = "idle"
    /\ entry' = "none"
    /\ handler' = "none"
    /\ svc' = "client"
    /\ inbound' = NoRequest
    /\ svcCalls' = <<>>
    /\ sent' = <<>>
    /\ upstream' = NoResponse
    /\ ret' = NoReturn
    /\ response' = NoResponse
    /\ twin' = NoResponse
    /\ ctx' = "live"
    /\ UNCHANGED << client, conc, env, proc, configFile, constructed >>

Next ==
    \/ RouterServeHTTP
    \/ CreateJiraIssueHandler
    \/ SearchIssuesHandler
    \/ GetIssueDetailsHandler
    \/ GetIssuesInEpicHandler
    \/ CreateIssue
    \/ SearchIssues
    \/ GetIssue
    \/ UpstreamResponds
    \/ UpstreamRedirects
    \/ InboundCancelled
    \/ ContextDone
    \/ TransportError
    \/ MockServiceReturns
    \/ NextRequest

Spec == Init /\ [][Next]_vars

(***************************************************************************)
(* Start-up: main from its first line to ListenAndServe, and a test that   *)
(* constructs the client itself.                                           *)
(***************************************************************************)
NotConstructed == [kind |-> "pending"]

InitStart ==
    /\ pc = "idle"
    /\ entry = "none"
    /\ handler = "none"
    /\ svc = "client"
    /\ inbound = NoRequest
    /\ svcCalls = <<>>
    /\ sent = <<>>
    /\ upstream = NoResponse
    /\ ret = NoReturn
    /\ response = NoResponse
    /\ twin = NoResponse
    /\ client = NilClient
    /\ env \in StartEnvironments
    /\ proc = "start"
    /\ configFile \in ConfigFiles
    /\ constructed = NotConstructed
    /\ ctx = "live"
    /\ conc = [i \in 1..MaxRequests |-> IdleRequest]

requestVarsButConc == << pc, entry, handler, svc, inbound, svcCalls, sent, upstream,
                         ret, response, twin, ctx >>

requestVars == << requestVarsButConc, conc >>

\* viper.ReadInConfig: a missing file is ignored, an unreadable one is fatal
MainReadInConfig ==
    /\ proc = "start"
    /\ proc' = IF configFile.kind = "malformed" THEN "exited" ELSE "configRead"
    /\ UNCHANGED << requestVars, client, env, configFile, constructed >>

\* the check of the required keys
MainVerifyRequired ==
    /\ proc = "configRead"
    /\ proc' = IF RequiredConfigurationSet(env, configFile) THEN "verified" ELSE "exited"
    /\ UNCHANGED << requestVars, client, env, configFile, constructed >>

\* jira.NewClient(nil)
MainNewClient ==
    /\ proc = "verified"
    /\ constructed' = Constructed(env, NilHTTPClient)
    /\ client' = constructed'.client
    /\ proc' = IF constructed'.err # NoError THEN "exited" ELSE "constructed"
    /\ UNCHANGED << requestVars, env, configFile >>

\* the routes are registered and http.ListenAndServe is called
MainListenAndServe ==
    /\ proc = "constructed"
    /\ proc' = "listening"
    /\ UNCHANGED << requestVars, client, env, configFile, constructed >>

\* a test calls NewClient with its own http.Client or with nil
TestNewClient ==
    /\ proc = "start"
    /\ \E hc \in HTTPClients :
         /\ constructed' = Constructed(env, hc)
         /\ client' = constructed'.client
    /\ proc' = "test"
    /\ UNCHANGED << requestVars, env, configFile >>

NextStart ==
    \/ MainReadInConfig
    \/ MainVerifyRequired
    \/ MainNewClient
    \/ MainListenAndServe
    \/ TestNewClient

SpecStart == InitStart /\ [][NextStart]_vars

\* the same server started with any of the configurations
InitConfig ==
    /\ pc = "idle"
    /\ entry = "none"
    /\ handler = "none"
    /\ svc = "client"
    /\ inbound = NoRequest
    /\ svcCalls = <<>>
    /\ sent = <<>>
    /\ upstream = NoResponse
    /\ ret = NoReturn
    /\ response = NoResponse
    /\ twin = NoResponse
    /\ client = ClientConfig
    /\ env \in Environments
    /\ proc = "listening"
    /\ configFile = NoConfigFile
    /\ constructed = Constructed(env, NilHTTPClient)
    /\ ctx = "live"
    /\ conc = [i \in 1..MaxRequests |-> IdleRequest]

SpecConfig == InitConfig /\ [][Next]_vars

\* the server with an http.Client that does not sit on a cancelled context
SpecLive == Init /\ [][Next]_vars /\ WF_vars(ContextDone)

(***************************************************************************)
(* Properties.                                                             *)
(***************************************************************************)
\* the service call returned to a handler, which has written its response
HandlerReturned == pc = "done" /\ handler # "none" /\ ret.kind = "return"

\* the upstream status an error carries, 0 when it carries none
RECURSIVE CarriedStatus(_)
CarriedStatus(e) ==
    CASE e.kind = "JiraAPIError" -> e.StatusCode
      [] e.kind = "wrapped" -> CarriedStatus(e.inner)
      [] OTHER -> 0

\* the raw upstream body an error carries
RECURSIVE CarriedMessage(_)
CarriedMessage(e) ==
    CASE e.kind = "JiraAPIError" -> e.Message
      [] e.kind = "wrapped" -> CarriedMessage(e.inner)
      [] OTHER -> ""

OutwardMessage(s) ==
    CASE s = 400 -> "Invalid request data sent to JIRA."
      [] s = 401 -> "Authentication failed with JIRA."
      [] s = 403 -> "Permission denied by JIRA."
      [] s = 404 -> "JIRA resource not found."
      [] OTHER -> "An unexpected error occurred while communicating with JIRA."

\* C1: a handler answers an upstream error, wrapped or not, by its status code
\* alone: 400, 401, 403 and 404 are passed on with their fixed message, every
\* other status becomes 500 with the "unexpected error" message.
C1_MapByStatus ==
    (HandlerReturned /\ CarriedStatus(ret.err) # 0) =>
        LET s == CarriedStatus(ret.err)
        IN  /\ response.status = (IF s \in {400, 401, 403, 404} THEN s ELSE 500)
            /\ response.status \in {400, 401, 403, 404, 500}
            /\ response.body = [error |-> OutwardMessage(s)]

C1_Witness ==
    /\ HandlerReturned
    /\ ret.err.kind = "wrapped"
    /\ CarriedStatus(ret.err) = 503
    /\ response.status = 500
    /\ response.body = [error |-> OutwardMessage(503)]

\* C2: the outward response to a failed upstream call does not depend on the
\* upstream error's body or URL (the same request answered with the same
\* status but another body and URL gets the same response), and the raw
\* upstream body is not in it.
C2_NoUpstreamBodyLeak ==
    (HandlerReturned /\ CarriedStatus(ret.err) # 0) =>
        /\ twin = response
        /\ response.body.error # CarriedMessage(ret.err)
        /\ \A b \in UpstreamBodies : response.body.error # b.raw

C2_Witness ==
    /\ HandlerReturned
    /\ handler = "create"
    /\ upstream.kind = "upstream"
    /\ upstream.status = 400
    /\ upstream.body.raw = "{errorMessages:[not found]}"
    /\ twin = response
    /\ response.status = 400

\* a call on the client with an empty required input
RequiredInputEmpty(call) ==
    CASE call.op = "CreateIssue" ->
            call.req.ProjectKey = "" \/ call.req.Summary = "" \/ call.req.IssueType = ""
      [] call.op = "SearchIssues" -> call.jql = ""
      [] call.op = "GetIssue" -> call.issueKey = ""

\* C3: a client method called with an empty required input returns a nil
\* result and a local error at once, and sends nothing to the upstream.
C3_LocalValidation ==
    (svc = "client" /\ svcCalls # <<>> /\ RequiredInputEmpty(svcCalls[1])) =>
        /\ pc = "done"
        /\ ret.kind = "return"
        /\ ret.result = NilResult
        /\ ret.err.kind = "error"
        /\ sent = <<>>
        /\ upstream = NoResponse

C3_Witness ==
    /\ entry = "client"
    /\ pc = "done"
    /\ svcCalls # <<>>
    /\ svcCalls[1].op = "CreateIssue"
    /\ svcCalls[1].req.ProjectKey # ""
    /\ svcCalls[1].req.Summary # ""
    /\ svcCalls[1].req.IssueType = ""
    /\ ret.result = NilResult
    /\ ret.err.kind = "error"
    /\ sent = <<>>

\* C4: POST /create_jira_issue with a decodable body in which project_key,
\* summary or issue_type is missing or empty is answered with status 400,
\* without an upstream call.
C4_ValidationIsBadRequest ==
    ( /\ pc = "done"
      /\ handler = "create"
      /\ svc = "client"
      /\ inbound.method = "POST"
      /\ inbound.body.kind = "object"
      /\ \E k \in {"project_key", "summary", "issue_type"} :
            Field(inbound.body.obj, k, "") = "" ) =>
        /\ response.status = 400
        /\ sent = <<>>

\* the result type each client method decodes a 2xx body into
ResultKind(op) ==
    CASE op = "CreateIssue" -> "CreateIssueResponse"
      [] op = "SearchIssues" -> "SearchResponse"
      [] op = "GetIssue" -> "Issue"

\* C5: once the upstream answered a client method with status s, exactly one
\* request was sent; outside 200..299 the method returned a nil result and a
\* JiraAPIError with status s, the raw body and the request URL; inside
\* 200..299 it returned the decoded result, or a nil result and a local
\* decode error that is no JiraAPIError.
C5_StatusPartition ==
    (upstream.kind = "upstream") =>
        /\ Len(sent) = 1
        /\ ret.kind = "return"
        /\ IF upstream.status \notin 200..299
           THEN /\ ret.result = NilResult
                /\ ret.err = [kind |-> "JiraAPIError", StatusCode |-> upstream.status,
                               Message |-> upstream.body.raw, URL |-> sent[1].url]
           ELSE \/ /\ ret.err = NoError
                   /\ ret.result.kind = ResultKind(svcCalls[1].op)
                   /\ upstream.body.kind = "object"
                \/ /\ ret.result = NilResult
                   /\ ret.err.kind = "error"
                   /\ upstream.body.kind # "object"

C5_Witness ==
    /\ upstream.kind = "upstream"
    /\ upstream.status = 302
    /\ svcCalls[1].op = "GetIssue"
    /\ Len(svcCalls[1].fields.elems) > 0
    /\ Len(sent) = 1
    /\ ret.result = NilResult
    /\ ret.err.kind = "JiraAPIError"
    /\ ret.err.StatusCode = 302
    /\ ret.err.URL = sent[1].url

\* C6: POST /search_jira_issues with a body {jql: q, max_results: n}, q not
\* empty and n > 0, calls SearchIssues with maxResults = n.
C6_MaxResultsFieldName ==
    ( /\ handler = "search"
      /\ inbound.method = "POST"
      /\ inbound.body.kind = "object"
      /\ Field(inbound.body.obj, "jql", "") # ""
      /\ Field(inbound.body.obj, "max_results", 0) > 0
      /\ "maxResults" \notin DOMAIN inbound.body.obj ) =>
        /\ svcCalls # <<>>
        /\ svcCalls[1].op = "SearchIssues"
        /\ svcCalls[1].maxResults = inbound.body.obj["max_results"]

\* C7: the search handler passes maxResults = 50 when the decoded count is
\* absent or <= 0 and the decoded count itself when it is > 0; no handler
\* calls SearchIssues with maxResults < 1.
C7_MaxResultsDefault ==
    /\ ( /\ handler = "search"
         /\ svcCalls # <<>> ) =>
           LET n == Field(inbound.body.obj, "maxResults", 0)
           IN  /\ n <= 0 => svcCalls[1].maxResults = 50
               /\ n > 0 => svcCalls[1].maxResults = n
    /\ ( /\ handler # "none"
         /\ svcCalls # <<>>
         /\ svcCalls[1].op = "SearchIssues" ) => svcCalls[1].maxResults >= 1

C7_Witness ==
    /\ handler = "search"
    /\ svcCalls # <<>>
    /\ "maxResults" \in DOMAIN inbound.body.obj
    /\ inbound.body.obj["maxResults"] = 0
    /\ svcCalls[1].maxResults = 50
    /\ Len(sent) = 1

\* C8: the search handler answers every decodable POST body without a
\* non-empty jql with 400 "Missing required field: jql" and does not call
\* the service, whatever the other fields are.
C8_MissingJQL ==
    ( /\ handler = "search"
      /\ inbound.method = "POST"
      /\ inbound.body.kind = "object"
      /\ Field(inbound.body.obj, "jql", "") = "" ) =>
        /\ pc = "done"
        /\ response = [kind |-> "response", status |-> 400,
                        contentType |-> "application/json",
                        body |-> [error |-> "Missing required field: jql"]]
        /\ svcCalls = <<>>
        /\ sent = <<>>

C8_Witness ==
    /\ handler = "search"
    /\ inbound.method = "POST"
    /\ inbound.body.kind = "object"
    /\ DOMAIN inbound.body.obj = {"maxResults", "fields"}
    /\ inbound.body.obj["maxResults"] = 2
    /\ response.status = 400
    /\ svcCalls = <<>>

\* C9: the create and the search handler answer every POST whose body fails
\* to decode with 400 {"error": "Invalid request body"}, the same for every
\* such body, and call neither the service nor the upstream.
C9_InvalidBody ==
    ( /\ handler \in {"create", "search"}
      /\ inbound.method = "POST"
      /\ inbound.body.kind = "malformed" ) =>
        /\ pc = "done"
        /\ response = [kind |-> "response", status |-> 400,
                        contentType |-> "application/json",
                        body |-> [error |-> "Invalid request body"]]
        /\ svcCalls = <<>>
        /\ sent = <<>>

C9_Witness ==
    /\ handler = "create"
    /\ entry = "router"
    /\ inbound.method = "POST"
    /\ inbound.body = [kind |-> "malformed", raw |-> "{invalid json"]
    /\ response.status = 400
    /\ response.body = [error |-> "Invalid request body"]
    /\ svcCalls = <<>>

\* C10: through the registered routes, GET /jira_issue/ (empty issue key) is
\* answered with 400 {"error": "Missing issue key in URL path"} and no
\* upstream call.
C10_EmptyKeyEndToEnd ==
    ( /\ pc = "done"
      /\ entry = "router"
      /\ inbound.method = "GET"
      /\ inbound.path = <<"jira_issue", "">> ) =>
        /\ response.status = 400
        /\ response.body = [error |-> "Missing issue key in URL path"]
        /\ sent = <<>>

\* the path parameter a handler reads from the request
PathParameter(h, r) ==
    CASE h = "issue" -> Field(r.vars, "issueKey", "")
      [] h = "epic" -> Field(r.vars, "epicKey", "")
      [] OTHER -> ""

\* C11: the issue and the epic handler, invoked (with GET) with an empty path
\* parameter, answer 400 "Missing issue key in URL path" resp. "Missing epic
\* key in URL path" and never call the service; the epic handler never sends
\* a query with an empty epic key.
C11_EmptyPathParameter ==
    /\ ( /\ handler \in {"issue", "epic"}
         /\ PathParameter(handler, inbound) = "" ) =>
           /\ pc = "done"
           /\ svcCalls = <<>>
           /\ sent = <<>>
           /\ inbound.method = "GET" =>
                response = [kind |-> "response", status |-> 400,
                            contentType |-> "application/json",
                            body |-> [error |-> IF handler = "issue"
                                                THEN "Missing issue key in URL path"
                                                ELSE "Missing epic key in URL path"]]
    /\ ( /\ handler = "epic"
         /\ svcCalls # <<>> ) =>
           svcCalls[1].jql # "'customfield_10014' = ''"

C11_Witness ==
    /\ handler = "epic"
    /\ inbound.method = "GET"
    /\ inbound.vars = [epicKey |-> ""]
    /\ svc = "client"
    /\ response.status = 400
    /\ response.body = [error |-> "Missing epic key in URL path"]
    /\ svcCalls = <<>>

\* the method each handler serves
HandlerMethod(h) == IF h \in {"create", "search"} THEN "POST" ELSE "GET"

\* C12: each handler answers a request with another method than its own with
\* 405 before anything else: the body is not decoded and the service is not
\* called, also when the body is invalid or the path parameter is empty.
C12_MethodNotAllowed ==
    ( /\ handler # "none"
      /\ inbound.method # HandlerMethod(handler) ) =>
        /\ pc = "done"
        /\ response.status = 405
        /\ svcCalls = <<>>
        /\ sent = <<>>

C12_Witness ==
    /\ handler = "create"
    /\ inbound.method = "GET"
    /\ inbound.body.kind = "malformed"
    /\ response.status = 405
    /\ svcCalls = <<>>

\* C13: every error response a handler writes has Content-Type
\* application/json and a body of the shape {"error": message}.
C13_ErrorShape ==
    ( /\ pc = "done"
      /\ handler # "none"
      /\ response.status >= 400 ) =>
        /\ response.contentType = "application/json"
        /\ DOMAIN response.body = {"error"}

\* C14: when the upstream answers an issue creation with any 2xx status and
\* a body {key: K, self: S}, the create handler answers 201 with the body
\* {message: "JIRA issue created successfully", key: K, url: S}.
C14_CreatedResponse ==
    ( /\ handler = "create"
      /\ upstream.kind = "upstream"
      /\ upstream.status \in 200..299
      /\ upstream.body.kind = "object"
      /\ {"key", "self"} \subseteq DOMAIN upstream.body.obj ) =>
        /\ pc = "done"
        /\ response = [kind |-> "response", status |-> 201,
                        contentType |-> "application/json",
                        body |-> [message |-> "JIRA issue created successfully",
                                  key |-> upstream.body.obj["key"],
                                  url |-> upstream.body.obj["self"]]]

C14_Witness ==
    /\ handler = "create"
    /\ entry = "router"
    /\ upstream.kind = "upstream"
    /\ upstream.status = 200
    /\ response.status = 201
    /\ response.body = [message |-> "JIRA issue created successfully",
                         key |-> "PROJ-123", url |-> "https://x/issue/123"]

\* the client sent the request of a CreateIssue call
CreateIssueSent ==
    /\ svc = "client"
    /\ svcCalls # <<>>
    /\ svcCalls[1].op = "CreateIssue"
    /\ sent # <<>>

AssigneeEmails == {"", "a@example.com", "b@example.com"}

\* C16: the fields object of a valid CreateIssue has exactly the keys project,
\* summary, issuetype, description iff the description is not empty, and
\* parent iff the parent key is not empty; the request sent is the same for
\* every assignee email.
C16_PayloadKeys ==
    CreateIssueSent =>
        LET f == sent[1].body.payload.fields
            req == svcCalls[1].req
        IN  /\ DOMAIN f = {"project", "summary", "issuetype"}
                            \cup (IF req.Description # "" THEN {"description"} ELSE {})
                            \cup (IF req.ParentKey # "" THEN {"parent"} ELSE {})
            /\ f.project = [key |-> req.ProjectKey]
            /\ f.summary = req.Summary
            /\ f.issuetype = [name |-> req.IssueType]
            /\ req.ParentKey # "" => f["parent"] = [key |-> req.ParentKey]
            /\ \A a \in AssigneeEmails :
                  CreateIssueSend(client, [req EXCEPT !.AssigneeEmail = a]).sends = << sent[1] >>

C16_Witness ==
    /\ CreateIssueSent
    /\ svcCalls[1].req.AssigneeEmail = "a@example.com"
    /\ svcCalls[1].req.ParentKey = "PROJ-100"
    /\ svcCalls[1].req.Description = ""
    /\ DOMAIN sent[1].body.payload.fields = {"project", "summary", "issuetype", "parent"}

\* C17: SearchIssues puts a fields key in the body it sends if and only if
\* the field list has at least one element; an empty list and a nil list give
\* the same request with the body {jql, maxResults}; a non-empty list is sent
\* element for element in the same order.
C17_SearchFieldsKey ==
    ( /\ svc = "client"
      /\ svcCalls # <<>>
      /\ svcCalls[1].op = "SearchIssues"
      /\ svcCalls[1].jql # "" ) =>
        LET call == svcCalls[1]
            n == Len(call.fields.elems)
        IN  /\ Len(sent) >= 1
            /\ sent[1].body.kind = "json"
            /\ ("fields" \in DOMAIN sent[1].body.payload) <=> (n > 0)
            /\ n = 0 => sent[1].body.payload =
                           [jql |-> call.jql, maxResults |-> call.maxResults]
            /\ n > 0 => sent[1].body.payload =
                           [jql |-> call.jql, maxResults |-> call.maxResults,
                            fields |-> call.fields.elems]
            /\ SearchIssuesSend(client, call.jql, call.maxResults, Slice(<<>>))
                  = SearchIssuesSend(client, call.jql, call.maxResults, NilSlice)

C17_Witness ==
    /\ svc = "client"
    /\ svcCalls # <<>>
    /\ svcCalls[1].op = "SearchIssues"
    /\ svcCalls[1].fields = Slice(<<>>)
    /\ Len(sent) = 1
    /\ DOMAIN sent[1].body.payload = {"jql", "maxResults"}

\* f1,f2,...,fn for the first n names of a list
RECURSIVE JoinedByCommas(_, _)
JoinedByCommas(l, n) ==
    IF n = 0 THEN ""
    ELSE IF n = 1 THEN l[1]
    ELSE JoinedByCommas(l, n - 1) \o "," \o l[n]

\* C18: GetIssue sends a GET without body to {base}/rest/api/3/issue/{key},
\* followed by ?fields=f1,...,fn if and only if the field list is not empty;
\* for a nil or empty list the URL ends with the key.
C18_GetIssueRequest ==
    ( /\ svc = "client"
      /\ svcCalls # <<>>
      /\ svcCalls[1].op = "GetIssue"
      /\ svcCalls[1].issueKey # ""
      /\ svcCalls[1].issueKey \notin UnparsableKeys ) =>
        LET call == svcCalls[1]
            n == Len(call.fields.elems)
            base == client.baseURL \o "/rest/api/3/issue/" \o call.issueKey
        IN  /\ Len(sent) >= 1
            /\ sent[1].method = "GET"
            /\ sent[1].body = NoBody
            /\ n = 0 => sent[1].url = base
            /\ n > 0 => sent[1].url =
                           base \o "?fields=" \o JoinedByCommas(call.fields.elems, n)

C18_Witness ==
    /\ svc = "client"
    /\ svcCalls # <<>>
    /\ svcCalls[1].op = "GetIssue"
    /\ svcCalls[1].fields = Slice(<<"summary", "status">>)
    /\ Len(sent) = 1
    /\ sent[1].url = "https://jira.test/rest/api/3/issue/PROJ-1?fields=summary,status"

\* C19: for every non-empty epic key K the epic handler calls SearchIssues
\* exactly once, with the query 'customfield_10014' = 'K' (K as it came, a
\* single quote included), maxResults 50 and a nil field list, and answers
\* 200 with the result of that call.
C19_EpicQuery ==
    ( /\ handler = "epic"
      /\ inbound.method = "GET"
      /\ PathParameter("epic", inbound) # "" ) =>
        /\ svcCalls =
              << [op |-> "SearchIssues",
                  jql |-> "'customfield_10014' = '"
                            \o PathParameter("epic", inbound) \o "'",
                  maxResults |-> 50,
                  fields |-> NilSlice] >>
        /\ (HandlerReturned /\ ret.err = NoError) =>
              response = [kind |-> "response", status |-> 200,
                          contentType |-> "application/json",
                          body |-> EncodeJSON(ret.result)]

C19_Witness ==
    /\ handler = "epic"
    /\ inbound.method = "GET"
    /\ inbound.vars = [epicKey |-> "E'1"]
    /\ svcCalls # <<>>
    /\ svcCalls[1].jql = "'customfield_10014' = 'E'1'"
    /\ HandlerReturned
    /\ ret.err = NoError
    /\ response.status = 200

\* C20: the field name of the epic query is the configured epic-link field
\* name: with the configuration value F, the query for epic key K is
\* 'F' = 'K'.
C20_ConfiguredEpicField ==
    ( /\ handler = "epic"
      /\ svcCalls # <<>> ) =>
        svcCalls[1].jql = "'" \o env.JIRA_MCP_EPIC_LINK_FIELD_ID \o "' = '"
                            \o PathParameter("epic", inbound) \o "'"

\* C21: NewClient returns a nil client and an error whenever the base URL,
\* the account email or the API token is empty, and sends nothing; when the
\* three are set it returns a client holding exactly these values, with the
\* http.Client it was given, or the default one when it was given nil.
C21_NewClientFailsFast ==
    ( proc \in {"test", "constructed", "exited"} /\ constructed # NotConstructed ) =>
        LET missing == \/ env["JIRA_URL"] = ""
                       \/ env["JIRA_USER_EMAIL"] = ""
                       \/ env["JIRA_API_TOKEN"] = ""
        IN  /\ sent = <<>>
            /\ client = constructed.client
            /\ missing => /\ constructed.client = NilClient
                           /\ constructed.err # NoError
            /\ ~missing => /\ constructed.err = NoError
                            /\ constructed.client.baseURL = env["JIRA_URL"]
                            /\ constructed.client.userEmail = env["JIRA_USER_EMAIL"]
                            /\ constructed.client.apiToken = env["JIRA_API_TOKEN"]
                            /\ constructed.client.httpClient =
                                  IF constructed.httpClient = NilHTTPClient
                                  THEN "DefaultClient" ELSE constructed.httpClient

C21_Witness ==
    /\ proc = "test"
    /\ constructed.httpClient = "server.Client()"
    /\ env["JIRA_URL"] # ""
    /\ env["JIRA_USER_EMAIL"] # ""
    /\ env["JIRA_API_TOKEN"] = ""
    /\ constructed.client = NilClient
    /\ constructed.err # NoError

\* a required value is provided by its prefixed variable or by the file
Provided(key) ==
    \/ env["JIRA_MCP_" \o key] # ""
    \/ /\ configFile.kind = "yaml"
       /\ key \in DOMAIN configFile.values
       /\ configFile.values[key] # ""

\* C22: main reaches ListenAndServe whenever each of JIRA_URL,
\* JIRA_USER_EMAIL and JIRA_API_TOKEN is provided by its JIRA_MCP_ variable
\* or by the configuration file, with nothing else set; and it exits before
\* listening when one of them is provided by neither.
C22_StartsWhenConfigured ==
    /\ ( /\ proc = "exited"
         /\ configFile.kind # "malformed"
         /\ \A key \in RequiredKeys : env[key] = "" ) =>
           \E key \in RequiredKeys : ~Provided(key)
    /\ ( proc \in {"verified", "constructed", "listening"} ) =>
           \A key \in RequiredKeys : Provided(key)

\* a handler answered without calling the service
AnsweredLocally == pc = "done" /\ handler # "none" /\ svcCalls = <<>>

\* C23: a handler invocation sends at most one HTTP request to the upstream,
\* none when it answers from its local checks, and no second one after the
\* upstream call failed.
C23_AtMostOneRequest ==
    /\ handler # "none" => Len(sent) <= 1
    /\ AnsweredLocally => sent = <<>>
    /\ (HandlerReturned /\ ret.err # NoError) => Len(sent) <= 1

InternalServerError ==
    [kind |-> "response", status |-> 500, contentType |-> "application/json",
     body |-> [error |-> "An internal server error occurred."]]

\* C24: the context of the inbound request is the context of the outbound
\* call: a handler blocks only in its one service call, and when the inbound
\* request is cancelled while the call is in flight, the call returns an error
\* and the handler answers 500, whether or not the upstream ever answers.
C24_Cancellation ==
    /\ [] ( pc = "inflight" => Len(svcCalls) = 1 )
    /\ [] ( ( /\ ctx = "cancelled"
              /\ pc = "done" ) =>
                 /\ ret.kind = "return"
                 /\ ret.result = NilResult
                 /\ ret.err # NoError
                 /\ upstream = NoResponse
                 /\ response = InternalServerError )
    /\ ( ( ctx = "cancelled" /\ pc = "inflight" )
            ~> ( ctx = "cancelled" /\ pc = "done" /\ response = InternalServerError ) )

C24_Witness ==
    /\ handler = "issue"
    /\ entry = "router"
    /\ ctx = "cancelled"
    /\ pc = "done"
    /\ upstream = NoResponse
    /\ response.status = 500

SameIssue(obj, out) ==
    /\ "key" \in DOMAIN obj => out.key = obj["key"]
    /\ "self" \in DOMAIN obj => out.self = obj["self"]
    /\ "fields" \in DOMAIN obj => out.fields = obj["fields"]

\* C26: for search, get issue and epic issues, a successful upstream call is
\* answered with 200 and the decoded upstream result unchanged: the same
\* startAt, maxResults and total, and the same issues with the same keys,
\* self references and field maps in the upstream's order.
C26_PassThrough ==
    ( /\ handler \in {"search", "issue", "epic"}
      /\ svc = "client"
      /\ upstream.kind = "upstream"
      /\ HandlerReturned
      /\ ret.err = NoError ) =>
        LET obj == upstream.body.obj
            out == response.body
        IN  /\ response.status = 200
            /\ response.contentType = "application/json"
            /\ IF handler = "issue"
               THEN SameIssue(obj, out)
               ELSE /\ "startAt" \in DOMAIN obj => out.startAt = obj["startAt"]
                    /\ "maxResults" \in DOMAIN obj => out.maxResults = obj["maxResults"]
                    /\ "total" \in DOMAIN obj => out.total = obj["total"]
                    /\ "issues" \in DOMAIN obj =>
                          /\ Len(out.issues) = Len(obj["issues"])
                          /\ \A i \in 1..Len(obj["issues"]) :
                                SameIssue(obj["issues"][i], out.issues[i])

C26_Witness ==
    /\ handler = "epic"
    /\ entry = "router"
    /\ upstream.kind = "upstream"
    /\ upstream.status = 200
    /\ HandlerReturned
    /\ ret.err = NoError
    /\ response.status = 200
    /\ response.body.total = 7
    /\ Len(response.body.issues) = 2
    /\ response.body.issues[1].key = "PROJ-2"
    /\ response.body.issues[2].fields = [summary |-> "First issue"]

\* C28: whatever was called and however it ended, the configuration of the
\* client is the one NewClient returned, and every request sent carries Basic
\* authentication with the configured account email and API token.
C28_ConfigurationFrame ==
    /\ client = constructed.client
    /\ client = ClientConfig
    /\ \A i \in 1..Len(sent) :
          /\ sent[i].authUser = client.userEmail
          /\ sent[i].authPassword = client.apiToken

\* C29: every method of the client returns either a result and no error, or
\* no result and an error, on every path; a handler that sees no error has a
\* result to answer with.
C29_ResultOrError ==
    ( svc = "client" /\ ret.kind = "return" ) =>
        /\ \/ ret.result # NilResult /\ ret.err = NoError
           \/ ret.result = NilResult /\ ret.err # NoError
        /\ ret.err = NoError => ret.result.kind = ResultKind(svcCalls[1].op)
        /\ (handler # "none" /\ ret.err = NoError) =>
              /\ pc = "done"
              /\ response.status \in {200, 201}
              /\ response.body # JSONNull

C29_Witness ==
    /\ svc = "client"
    /\ handler = "create"
    /\ upstream.kind = "upstream"
    /\ upstream.status = 204
    /\ upstream.body.kind = "text"
    /\ ret.kind = "return"
    /\ ret.result = NilResult
    /\ ret.err = LocalError("failed to decode response")
    /\ response.status = 500

\* the number of commas in a sequence of characters
RECURSIVE Commas(_)
Commas(cs) ==
    IF cs = <<>> THEN 0
    ELSE (IF Head(cs) = "," THEN 1 ELSE 0) + Commas(Tail(cs))

\* C30: for GET /jira_issue/{key} with a fields value v that is not empty,
\* the list passed to GetIssue is v split at every comma, empty segments
\* kept, and the client puts fields=v into the URL it requests; without a
\* fields value the handler passes a nil list and the URL has no query.
C30_SplitJoinInverse ==
    ( /\ handler = "issue"
      /\ svcCalls # <<>> ) =>
        LET v == inbound.fieldsQuery
            call == svcCalls[1]
            base == client.baseURL \o "/rest/api/3/issue/" \o call.issueKey
        IN  /\ v = <<>> =>
                  /\ call.fields = NilSlice
                  /\ sent # <<>> => sent[1].url = base
            /\ v # <<>> =>
                  /\ ~call.fields.nil
                  /\ Len(call.fields.elems) = Commas(v) + 1
                  /\ JoinedByCommas(call.fields.elems, Len(call.fields.elems)) = Str(v)
                  /\ sent # <<>> => sent[1].url = base \o "?fields=" \o Str(v)

C30_Witness ==
    /\ handler = "issue"
    /\ entry = "router"
    /\ inbound.fieldsQuery = <<",">>
    /\ svcCalls # <<>>
    /\ svcCalls[1].fields = Slice(<<"", "">>)
    /\ sent # <<>>
    /\ sent[1].url = "https://jira.test/rest/api/3/issue/PROJ-1?fields=,"

(***************************************************************************)
(* Concurrent requests.  net/http serves every inbound request in its own  *)
(* goroutine; the handlers and the client are shared by all of them.       *)
(***************************************************************************)
\* the requests that arrive at the same time
ConcurrentInputs ==
    { [method |-> "POST", path |-> <<"create_jira_issue">>, fieldsQuery |-> <<>>,
       body |-> ObjectBody([project_key |-> "PROJ", summary |-> "S",
                            issue_type |-> "Task", description |-> "hello"])],
      [method |-> "POST", path |-> <<"search_jira_issues">>, fieldsQuery |-> <<>>,
       body |-> ObjectBody([jql |-> "project = PROJ", maxResults |-> 1])],
      [method |-> "POST", path |-> <<"search_jira_issues">>, fieldsQuery |-> <<>>,
       body |-> ObjectBody([maxResults |-> 1])],
      [method |-> "GET", path |-> <<"jira_issue", "PROJ-1">>,
       fieldsQuery |-> <<"a", ",", "b">>, body |-> EmptyBody],
      [method |-> "GET", path |-> <<"jira_issue", "K%zz">>, fieldsQuery |-> <<>>,
       body |-> EmptyBody],
      [method |-> "GET", path |-> <<"jira_epic", "EPIC-1", "issues">>,
       fieldsQuery |-> <<>>, body |-> EmptyBody] }

\* the answers of the upstream to them
ConcurrentAnswers == { r \in UpstreamResponses : r.status \in {200, 404} }

\* the state shared by every request served at once
SharedRequestState(all, i) == all[1]
\* the state of the goroutine that serves request i: the locals of its handler
\* and of the client method it calls
RequestState(all, i) == all[i]

\* the router dispatches request i to its handler, which answers or blocks in
\* the call of the client
ServeConcurrently(i) ==
    /\ RequestState(conc, i).pc = "idle"
    /\ \E in \in ConcurrentInputs :
         LET mt == MuxMatch(in.method, in.path)
             r == InboundRequest(in.method, in.path, mt.vars, in.fieldsQuery, in.body)
             o == Served(client, mt.handler, "client", r)
         IN  /\ mt.kind = "route"
             /\ conc' = [conc EXCEPT ![i] =
                    [pc |-> o.pc, handler |-> mt.handler, inbound |-> r,
                     svcCalls |-> o.svcCalls, sent |-> o.sent, upstream |-> NoResponse,
                     ret |-> o.ret, response |-> o.response]]
    /\ UNCHANGED << requestVarsButConc, client, env, proc, configFile, constructed >>

\* the upstream answers the request sent for request i
UpstreamRespondsConcurrently(i) ==
    LET q == RequestState(conc, i)
    IN  /\ q.pc = "inflight"
        /\ \E httpResp \in ConcurrentAnswers :
             LET r == ClientReceive(q.svcCalls[1], q.sent[1], httpResp)
             IN  conc' = [conc EXCEPT ![i].upstream = httpResp,
                                      ![i].ret = r,
                                      ![i].response = HandlerFinish(q.handler, r),
                                      ![i].pc = "done"]
        /\ UNCHANGED << requestVarsButConc, client, env, proc, configFile, constructed >>

\* httpClient.Do fails for request i
TransportErrorConcurrently(i) ==
    LET q == RequestState(conc, i)
    IN  /\ q.pc = "inflight"
        /\ \E cause \in TransportFailures :
             LET r == ClientTransportError(q.svcCalls[1], cause)
             IN  conc' = [conc EXCEPT ![i].ret = r,
                                      ![i].response = HandlerFinish(q.handler, r),
                                      ![i].pc = "done"]
        /\ UNCHANGED << requestVarsButConc, client, env, proc, configFile, constructed >>

\* the handler of request i returned; its goroutine serves the next request
RequestOver(i) ==
    /\ RequestState(conc, i).pc = "done"
    /\ conc' = [conc EXCEPT ![i] = IdleRequest]
    /\ UNCHANGED << requestVarsButConc, client, env, proc, configFile, constructed >>

NextConcurrent ==
    \/ \E i \in 1..MaxRequests : ServeConcurrently(i)
    \/ \E i \in 1..MaxRequests : UpstreamRespondsConcurrently(i)
    \/ \E i \in 1..MaxRequests : TransportErrorConcurrently(i)
    \/ \E i \in 1..MaxRequests : RequestOver(i)

SpecConcurrent == Init /\ [][NextConcurrent]_vars

\* the outward response to a request handled alone: h serves r, and the
\* upstream answers u (NoResponse: the transport fails) when h sends a request
HandledAlone(h, r, u) ==
    LET o == Served(ClientConfig, h, "client", r)
    IN  [svcCalls |-> o.svcCalls,
         sent |-> o.sent,
         responses |->
            IF o.pc = "done" THEN {o.response}
            ELSE IF u.kind = "upstream"
            THEN {HandlerFinish(h, ClientReceive(o.svcCalls[1], o.sent[1], u))}
            ELSE {HandlerFinish(h, ClientTransportError(o.svcCalls[1], cause)) :
                    cause \in TransportFailures}]

====
